---- MODULE Spec2Model ----
(***************************************************************************)
(* createProject of packages/createproject/src/utils.ts: one run of the    *)
(* project-creation workflow, as a state machine over the file system, the *)
(* log and the external commands it calls.                                 *)
(*                                                                         *)
(* A package name is a sequence of one-character strings.  A path is a     *)
(* sequence of segments; a segment is a sequence of strings, so that a     *)
(* segment computed from a package name (<<"a", "_">>) and a fixed file    *)
(* name (<<"package.json">>) have the same type.                           *)
(***************************************************************************)
EXTENDS Naturals, Sequences, FiniteSets, TLC

VARIABLES
  packageName,   \* createProject's packageName argument
  bare,          \* createProject's bare argument
  rootKind,      \* what occupies the project root before the run
  processCwd,    \* process.cwd(): the directory spawned commands start in
  fs,            \* the file system: path -> "dir" | "old" | "extracted" | "template"
  pc,            \* position of the run in createProject
  useYarn,       \* const useYarn (line 166)
  npmOutput,     \* what `npm config list` gave canUseNpm (line 76)
  stream,        \* the download stream piped into the extractor (lines 123-131)
  templateDest,  \* destination handed to outputTemplatePackage (<<>>: not called)
  installCmd,    \* the package manager execAsync ran install with ("": not run)
  writes,        \* paths this run created or wrote
  calls,         \* number of times each external call was made
  results,       \* what the download, the install and the git call gave
  stages,        \* the positions the run has been in, in order
  log,           \* Log.info / Log.warning calls, in order
  error          \* the error createProject rejects with ("none": none)

\* The arguments and the environment of the run: never assigned.
inputs == <<packageName, bare, rootKind, processCwd>>

vars == <<inputs, fs, pc, useYarn, npmOutput, stream, templateDest, installCmd,
          writes, calls, results, stages, log, error>>

----------------------------------------------------------------------------
(* Bounds of the model. *)

\* Longest package name drawn.
MaxNameLen == 4

\* The characters package names are drawn from: a lower-case letter, a
\* capital letter, an underscore, and the two characters of a scoped name.
Chars == {"a", "A", "_", "@", "/"}

RECURSIVE NamesOfLen(_)
NamesOfLen(n) ==
  IF n = 0 THEN {<<>>}
  ELSE {Append(s, c) : s \in NamesOfLen(n - 1), c \in Chars}

PackageNames == UNION {NamesOfLen(n) : n \in 0..MaxNameLen}

----------------------------------------------------------------------------
(* validate-npm-package-name, as called on line 36. *)

\* Characters encodeURIComponent leaves as they are.
UrlSafeChars == {"a", "A", "_", ".", "-", "~", "'", "!", "(", ")", "*"}

SpecialChars == {"~", "'", "!", "(", ")", "*"}

ToLowerCase(c) == IF c = "A" THEN "a" ELSE c

IsUrlSafe(s) == \A i \in 1..Len(s) : s[i] \in UrlSafeChars

SlashPositions(s) == {i \in 1..Len(s) : s[i] = "/"}

\* The last "/"-separated part of the name: name.split('/').slice(-1)[0].
LastPart(s) ==
  LET ps == SlashPositions(s) IN
  IF ps = {} THEN s
  ELSE LET k == CHOOSE i \in ps : \A j \in ps : j <= i
       IN SubSeq(s, k + 1, Len(s))

\* scopedPackagePattern ^(?:@([^/]+?)[/])?([^/]+?)$ matched with a user part,
\* and both captured parts unchanged by encodeURIComponent.  Without the
\* "@user/" prefix the user group is undefined and the comparison fails.
ScopedAndUrlSafe(s) ==
  /\ Len(s) >= 4
  /\ s[1] = "@"
  /\ \E k \in 3..(Len(s) - 1) :
       /\ SlashPositions(s) = {k}
       /\ IsUrlSafe(SubSeq(s, 2, k - 1))
       /\ IsUrlSafe(SubSeq(s, k + 1, Len(s)))

NameErrors(s) ==
  (IF Len(s) = 0 THEN <<"name length must be greater than zero">> ELSE <<>>)
  \o (IF Len(s) > 0 /\ s[1] = "."
        THEN <<"name cannot start with a period">> ELSE <<>>)
  \o (IF Len(s) > 0 /\ s[1] = "_"
        THEN <<"name cannot start with an underscore">> ELSE <<>>)
  \o (IF Len(s) > 0 /\ (s[1] = " " \/ s[Len(s)] = " ")
        THEN <<"name cannot contain leading or trailing spaces">> ELSE <<>>)
  \o (IF ~IsUrlSafe(s) /\ ~ScopedAndUrlSafe(s)
        THEN <<"name can only contain URL-friendly characters">> ELSE <<>>)

NameWarnings(s) ==
  (IF \E i \in 1..Len(s) : ToLowerCase(s[i]) # s[i]
        THEN <<"name can no longer contain capital letters">> ELSE <<>>)
  \o (IF \E i \in 1..Len(LastPart(s)) : LastPart(s)[i] \in SpecialChars
        THEN <<"name can no longer contain special characters">> ELSE <<>>)

validateNpmPackageName(s) ==
  [validForNewPackages |-> NameErrors(s) = <<>> /\ NameWarnings(s) = <<>>,
   errors   |-> NameErrors(s),
   warnings |-> NameWarnings(s)]

----------------------------------------------------------------------------
(* Paths. *)

\* The cwd argument of createProject.
Cwd == << <<"cwd">> >>

\* The directory getTempFileName() names.
TempFileName == << <<"tmp">>, <<"diez-temp">> >>

RECURSIVE StripTrailingSlashes(_)
StripTrailingSlashes(s) ==
  IF Len(s) > 0 /\ s[Len(s)] = "/"
    THEN StripTrailingSlashes(SubSeq(s, 1, Len(s) - 1))
    ELSE s

\* path.basename: the part after the last "/", trailing "/" ignored.
Basename(s) == LastPart(StripTrailingSlashes(s))

\* path.resolve(dir, segment) for a segment without "/": an empty segment
\* resolves to dir itself.
Resolve(dir, segment) == IF segment = <<>> THEN dir ELSE Append(dir, segment)

\* path.join(dir, name) for a fixed file name.
Join(dir, name) == Append(dir, <<name>>)

IsPrefix(p, q) == Len(p) <= Len(q) /\ SubSeq(q, 1, Len(p)) = p

\* q is dir itself or lies below it.
Under(q, dir) == IsPrefix(dir, q)

----------------------------------------------------------------------------
(* The file system. *)

existsSync(f, p) == p \in DOMAIN f

isDirectory(f, p) == f[p] = "dir"

\* The ancestors of p (p included) that do not exist yet.
MissingDirs(f, p) == {SubSeq(p, 1, k) : k \in 1..Len(p)} \ DOMAIN f

\* fs-extra ensureDirSync: mkdir -p.
ensureDirSync(f, p) == [q \in MissingDirs(f, p) |-> "dir"] @@ f

\* Writing files ps with content c, overwriting what is there.
WriteFiles(f, ps, c) == [q \in ps |-> c] @@ f

----------------------------------------------------------------------------
(* The state before the run. *)

\* const root = resolve(cwd, basename(packageName)) (line 167).
Root == Resolve(Cwd, Basename(packageName))

\* What may occupy the project root before the run: nothing, a file, an
\* empty directory, a directory without a package.json, a Node.js project.
RootKinds == {"absent", "file", "emptyDir", "otherDir", "project"}

BaseFs == [q \in {Cwd, << <<"tmp">> >>} |-> "dir"]

InitialFs(root, kind) ==
  CASE kind = "absent"   -> BaseFs
    [] kind = "file"     -> (root :> "old") @@ BaseFs
    [] kind = "emptyDir" -> (root :> "dir") @@ BaseFs
    [] kind = "otherDir" ->
         (root :> "dir") @@ (Join(root, "README.md") :> "old") @@ BaseFs
    [] kind = "project"  ->
         (root :> "dir") @@ (Join(root, "package.json") :> "old")
           @@ (Join(root, "README.md") :> "old") @@ BaseFs

NoCalls == [yarnProbe |-> 0, npmConfig |-> 0, download |-> 0,
            templateOutput |-> 0, install |-> 0, gitInit |-> 0]

NoResults == [download |-> "notRun", install |-> "notRun", git |-> "notRun"]

NpmNotRun == [kind |-> "notRun", cwd |-> <<>>]

Init ==
  /\ packageName \in PackageNames
  /\ bare \in BOOLEAN
  /\ rootKind \in (IF Basename(packageName) = <<>> THEN {"absent"} ELSE RootKinds)
  /\ processCwd \in {Cwd, Root}
  /\ fs = InitialFs(Root, rootKind)
  /\ pc = "Validate"
  /\ useYarn = FALSE
  /\ npmOutput = NpmNotRun
  /\ stream = "none"
  /\ templateDest = <<>>
  /\ installCmd = ""
  /\ writes = {}
  /\ calls = NoCalls
  /\ results = NoResults
  /\ stages = <<"Validate">>
  /\ log = <<>>
  /\ error = "none"

----------------------------------------------------------------------------
(* Helpers of the actions. *)

\* A Log call: its level, its message, the values the message interpolates.
Entry(level, msg, args, path) ==
  [level |-> level, msg |-> msg, args |-> args, path |-> path]

Info(msg, args) == Entry("info", msg, args, <<>>)

Warning(msg, args) == Entry("warning", msg, args, <<>>)

\* The run moves on to position next.
Go(next) ==
  /\ pc' = next
  /\ stages' = Append(stages, next)

\* The run throws: createProject rejects with err.
Throw(err) ==
  /\ error' = err
  /\ Go("Aborted")

Called(what) == calls' = [calls EXCEPT ![what] = @ + 1]

Gave(what, result) == results' = [results EXCEPT ![what] = result]

\* ` - ${message}` for every message (lines 40, 43).
RECURSIVE Dashed(_)
Dashed(msgs) ==
  IF msgs = <<>> THEN <<>>
  ELSE <<" - ", Head(msgs)>> \o Dashed(Tail(msgs))

\* The package manager the run's commands name (lines 191, 194, 209).
Manager == IF useYarn THEN "yarn" ELSE "npm"

----------------------------------------------------------------------------
(* validatePackageName (lines 35-53) and shouldUseYarn (line 59). *)

\* Faulty variant: a name is rejected for its errors only, not its warnings.
NameRejected_ErrorsOnly(name) == validateNpmPackageName(name).errors # <<>>

\* if (!validationResult.validForNewPackages) (line 37).
NameRejected(name) == ~validateNpmPackageName(name).validForNewPackages

\* The warnings pushed on lines 38-44.
ValidationMessages(name) ==
  Dashed(validateNpmPackageName(name).errors)
    \o Dashed(validateNpmPackageName(name).warnings)

ValidatePackageName ==
  /\ pc = "Validate"
  /\ IF NameRejected(packageName)
       THEN /\ log' = log \o
                 (IF ValidationMessages(packageName) # <<>>
                    THEN <<Warning("Project name validation failed:", <<>>),
                           Warning("", ValidationMessages(packageName))>>
                    ELSE <<>>)
            /\ Throw("Unable to create project with name")
       ELSE /\ Go("ProbeManager")
            /\ UNCHANGED <<log, error>>
  /\ UNCHANGED <<inputs, results, fs, useYarn, npmOutput, stream,
                 templateDest, installCmd, writes, calls>>

\* canRunCommand('yarnpkg --version') answers whether yarn is invocable.
ShouldUseYarn ==
  /\ pc = "ProbeManager"
  /\ \E invocable \in BOOLEAN : useYarn' = invocable
  /\ Called("yarnProbe")
  /\ Go("ValidateRoot")
  /\ UNCHANGED <<inputs, results, fs, npmOutput, stream,
                 templateDest, installCmd, writes, log, error>>

----------------------------------------------------------------------------
(* canUseNpm (lines 68-95) and validateProjectRoot (lines 102-119). *)

\* What spawnSync('npm', ['config', 'list']) can give: no output to join (the
\* spawn failed), output without a "; cwd = " line, or output whose cwd line
\* names the directory npm was started in, which is the process's: the call
\* passes no cwd option.  The joined output is always a string.
NpmConfigOutputs ==
  {[kind |-> "spawnFailed", cwd |-> <<>>],
   [kind |-> "noCwdLine", cwd |-> <<>>],
   [kind |-> "cwdLine", cwd |-> processCwd]}

\* Faulty variant: the cwd line is matched but not compared with root.
canUseNpm_AlwaysTrue(root, out) == TRUE

canUseNpm(root, out) ==
  CASE out.kind = "spawnFailed" -> TRUE
    [] out.kind = "noCwdLine"   -> TRUE
    [] out.kind = "cwdLine"     -> out.cwd = root

\* existsSync(root) && !lstatSync(root).isDirectory() (line 103).
NonDirectoryAt(f, root) == existsSync(f, root) /\ ~isDirectory(f, root)

\* Faulty variant: the project descriptor is looked for in cwd.
ProjectExistsAt_InCwd(f, root) == existsSync(f, Join(Cwd, "package.json"))

\* existsSync(join(root, 'package.json')) (line 108).
ProjectExistsAt(f, root) == existsSync(f, Join(root, "package.json"))

ValidateProjectRoot ==
  /\ pc = "ValidateRoot"
  /\ IF NonDirectoryAt(fs, Root)
       THEN /\ Throw("Found a non-directory")
            /\ UNCHANGED <<fs, writes, npmOutput, calls>>
       ELSE /\ fs' = ensureDirSync(fs, Root)
            /\ writes' = writes \cup MissingDirs(fs, Root)
            /\ IF ProjectExistsAt(fs', Root)
                 THEN /\ Throw("A Node.js project already exists")
                      /\ UNCHANGED <<npmOutput, calls>>
                 ELSE IF useYarn
                   THEN /\ Go("Acquire")
                        /\ UNCHANGED <<npmOutput, calls, error>>
                   ELSE \E out \in NpmConfigOutputs :
                          /\ npmOutput' = out
                          /\ Called("npmConfig")
                          /\ IF canUseNpm(Root, out)
                               THEN Go("Acquire") /\ UNCHANGED error
                               ELSE Throw("Unable to start an NPM process")
  /\ UNCHANGED <<inputs, results, useYarn, stream, templateDest,
                 installCmd, log>>

----------------------------------------------------------------------------
(* Template acquisition: the bare branch (lines 170-178), createTemplateProject *)
(* (lines 134-157) and downloadAndExtractProject (lines 121-132).             *)

\* The files of a template package.
TemplateFiles == {"package.json", "README.md"}

\* outputTemplatePackage(templateRoot, destination, tokens), which wrote the
\* files named in written: the destination is created when absent and each
\* file is written there with its tokens replaced.
OutputTemplatePackage(f, destination, written) ==
  WriteFiles(ensureDirSync(f, destination),
             {Join(destination, n) : n \in written}, "template")

\* The paths that call creates or writes.
OutputTemplateWrites(f, destination, written) ==
  MissingDirs(f, destination) \cup {Join(destination, n) : n \in written}

\* resolve(getTempFileName(), 'examples') (line 135).
TemplateRoot == Join(TempFileName, "examples")

\* The destination of the bare template: root (line 178).
BareDestination == Root

\* The destination createTemplateProject hands on: its cwd parameter (line
\* 156), which createProject sets to its own cwd (line 181).
RemoteDestination == Cwd

\* Faulty variant: the suggestion of line 184 is missing.
DownloadFailureLog_NoSuggestion ==
  <<[level |-> "warning",
     msg |-> "Unable to download template project from the Diez CDN.",
     args |-> <<>>, path |-> <<>>]>>

\* The catch block of lines 182-186, before it rethrows.
DownloadFailureLog ==
  <<Warning("Unable to download template project from the Diez CDN.", <<>>),
    Warning("If you would like to generate an empty project, re-run with",
            <<"--bare">>)>>

\* if (!stream) (line 124).
NoStream(result) == result = "noStream"

OutputBareTemplate ==
  /\ pc = "Acquire"
  /\ bare
  /\ templateDest' = BareDestination
  /\ Called("templateOutput")
  /\ \E written \in SUBSET TemplateFiles :
       /\ fs' = OutputTemplatePackage(fs, BareDestination, written)
       /\ writes' = writes \cup OutputTemplateWrites(fs, BareDestination, written)
       /\ IF written = TemplateFiles
            THEN Go("Install") /\ UNCHANGED error
            ELSE Throw("Template output failed")
  /\ UNCHANGED <<inputs, results, useYarn, npmOutput, stream,
                 installCmd, log>>

\* createTemplateProject up to the pipe of line 129.  downloadStream gives a
\* stream, gives nothing, or rejects.
DownloadTemplate ==
  /\ pc = "Acquire"
  /\ ~bare
  /\ fs' = ensureDirSync(fs, TemplateRoot)
  /\ writes' = writes \cup MissingDirs(fs, TemplateRoot)
  /\ Called("download")
  /\ \E result \in {"stream", "noStream", "rejected"} :
       /\ Gave("download", result)
       /\ IF NoStream(result) \/ result = "rejected"
         THEN /\ log' = log
                   \o <<Info("Downloading template project from the Diez CDN...", <<>>)>>
                   \o DownloadFailureLog
              /\ Throw(IF NoStream(result)
                         THEN "Unable to download template project"
                         ELSE "Download rejected")
              /\ UNCHANGED stream
         ELSE /\ log' = log
                   \o <<Info("Downloading template project from the Diez CDN...", <<>>)>>
              /\ stream' = "piped"
              /\ Go("Extracting")
              /\ UNCHANGED error
  /\ UNCHANGED <<inputs, useYarn, npmOutput, templateDest,
                 installCmd>>

\* The extractor emits 'close': the promise of line 131 resolves.
ExtractClose ==
  /\ pc = "Extracting"
  /\ stream = "piped"
  /\ stream' = "closed"
  /\ fs' = WriteFiles(fs, {Join(TemplateRoot, n) : n \in TemplateFiles}, "extracted")
  /\ writes' = writes \cup {Join(TemplateRoot, n) : n \in TemplateFiles}
  /\ Go("Substitute")
  /\ UNCHANGED <<inputs, results, useYarn, npmOutput, templateDest,
                 installCmd, calls, log, error>>

\* The download or the extraction fails after the pipe.  Line 131 listens
\* for 'close' only and neither stream has an 'error' listener of this code:
\* the promise is never settled.  Either the 'error' event finds no listener
\* at all and ends the process as an uncaught exception, or the run stays
\* suspended in the await of line 137.
StreamError ==
  /\ pc = "Extracting"
  /\ stream = "piped"
  /\ stream' = "errored"
  /\ \E extracted \in (SUBSET TemplateFiles) \ {TemplateFiles} :
       /\ fs' = WriteFiles(fs, {Join(TemplateRoot, n) : n \in extracted}, "extracted")
       /\ writes' = writes \cup {Join(TemplateRoot, n) : n \in extracted}
  /\ \E uncaught \in BOOLEAN :
       IF uncaught THEN Go("Crashed") ELSE UNCHANGED <<pc, stages>>
  /\ UNCHANGED <<inputs, results, useYarn, npmOutput, templateDest,
                 installCmd, calls, log, error>>

\* createTemplateProject from line 139: the tokens and outputTemplatePackage,
\* inside the try of lines 180-186.
OutputRemoteTemplate ==
  /\ pc = "Substitute"
  /\ templateDest' = RemoteDestination
  /\ Called("templateOutput")
  /\ \E written \in SUBSET TemplateFiles :
       /\ fs' = OutputTemplatePackage(fs, RemoteDestination, written)
       /\ writes' = writes \cup OutputTemplateWrites(fs, RemoteDestination, written)
       /\ IF written = TemplateFiles
            THEN Go("Install") /\ UNCHANGED <<log, error>>
            ELSE /\ log' = log \o DownloadFailureLog
                 /\ Throw("Template output failed")
  /\ UNCHANGED <<inputs, results, useYarn, npmOutput, stream,
                 installCmd>>

----------------------------------------------------------------------------
(* The rest of createProject: install (lines 189-197), git (lines 199-204), *)
(* the report (lines 206-221).                                              *)

\* The catch block of lines 192-195.
InstallFailureLog ==
  <<Warning("Unable to install dependencies. Are you connected to the Internet?", <<>>),
    Warning("You may need to run", <<Manager, "install">>)>>

\* Faulty variant: the install is not wrapped in try/catch.
InstallDependencies_NoCatch ==
  /\ pc = "Install"
  /\ installCmd' = Manager
  /\ Called("install")
  /\ \E ok \in BOOLEAN :
       /\ Gave("install", IF ok THEN "ok" ELSE "failed")
       /\ IF ok
            THEN /\ fs' = ensureDirSync(fs, Join(Root, "node_modules"))
                 /\ writes' = writes \cup MissingDirs(fs, Join(Root, "node_modules"))
                 /\ Go("InitVCS")
                 /\ UNCHANGED error
            ELSE /\ Throw("Install failed")
                 /\ UNCHANGED <<fs, writes>>
  /\ UNCHANGED <<inputs, useYarn, npmOutput, stream, templateDest, log>>

\* Faulty variant: a failed install is tried again.
InstallDependencies_Retry ==
  /\ pc = "Install"
  /\ installCmd' = Manager
  /\ Called("install")
  /\ \E ok \in BOOLEAN :
       /\ Gave("install", IF ok THEN "ok" ELSE "failed")
       /\ IF ok
            THEN /\ fs' = ensureDirSync(fs, Join(Root, "node_modules"))
                 /\ writes' = writes \cup MissingDirs(fs, Join(Root, "node_modules"))
                 /\ Go("InitVCS")
            ELSE /\ Go("Install")
                 /\ UNCHANGED <<fs, writes>>
  /\ UNCHANGED <<inputs, useYarn, npmOutput, stream, templateDest, log, error>>

\* execAsync(`${useYarn ? 'yarn' : 'npm'} install`, {cwd: root}).
InstallDependencies ==
  /\ pc = "Install"
  /\ installCmd' = Manager
  /\ Called("install")
  /\ \E ok \in BOOLEAN :
       /\ Gave("install", IF ok THEN "ok" ELSE "failed")
       /\ IF ok
         THEN /\ fs' = ensureDirSync(fs, Join(Root, "node_modules"))
              /\ writes' = writes \cup MissingDirs(fs, Join(Root, "node_modules"))
              /\ UNCHANGED log
         ELSE /\ log' = log \o InstallFailureLog
              /\ UNCHANGED <<fs, writes>>
  /\ Go("InitVCS")
  /\ UNCHANGED <<inputs, useYarn, npmOutput, stream,
                 templateDest, error>>

\* Faulty variant: the message of line 201 is logged after the try block.
GitLog_Always(ok) ==
  <<[level |-> "info", msg |-> "Initialized a Git repository at",
     args |-> <<>>, path |-> Root]>>

\* What lines 199-204 log: the message of line 201 after a successful
\* initialization, nothing in the catch block.
GitLog(ok) ==
  IF ok THEN <<Entry("info", "Initialized a Git repository at", <<>>, Root)>>
        ELSE <<>>

\* initializeGitRepository(root).
InitializeGitRepository ==
  /\ pc = "InitVCS"
  /\ Called("gitInit")
  /\ \E ok \in BOOLEAN :
       /\ Gave("git", IF ok THEN "ok" ELSE "failed")
       /\ log' = log \o GitLog(ok)
       /\ IF ok
            THEN /\ fs' = ensureDirSync(fs, Join(Root, ".git"))
                 /\ writes' = writes \cup MissingDirs(fs, Join(Root, ".git"))
            ELSE UNCHANGED <<fs, writes>>
  /\ Go("Report")
  /\ UNCHANGED <<inputs, useYarn, npmOutput, stream,
                 templateDest, installCmd, error>>

ReportSuccess ==
  /\ pc = "Report"
  /\ log' = log \o
       <<Entry("info", "Success! A new Diez (DS) has been created at", <<>>, Root),
         Info("the diez command line utility can be invoked using",
              <<IF useYarn THEN "yarn" ELSE "npm run", "diez">>),
         IF bare
           THEN Info("To see a list of available commands, you can run",
                     <<IF useYarn THEN "yarn" ELSE "npm run", "diez --help">>)
           ELSE Info("To get started, we suggest running",
                     <<IF useYarn THEN "yarn" ELSE "npm run", "demo">>)>>
       \o (IF bare THEN <<>>
           ELSE <<Info("Check out https://beta.diez.org/getting-started to learn more.",
                       <<>>)>>)
  /\ Go("Success")
  /\ UNCHANGED <<inputs, results, fs, useYarn, npmOutput, stream,
                 templateDest, installCmd, writes, calls, error>>

----------------------------------------------------------------------------

Next ==
  \/ ValidatePackageName
  \/ ShouldUseYarn
  \/ ValidateProjectRoot
  \/ OutputBareTemplate
  \/ DownloadTemplate
  \/ ExtractClose
  \/ StreamError
  \/ OutputRemoteTemplate
  \/ InstallDependencies
  \/ InitializeGitRepository
  \/ ReportSuccess

Spec == Init /\ [][Next]_vars

\* The event loop keeps running: a step that can be taken is taken.
FairSpec == Spec /\ WF_vars(Next)

----------------------------------------------------------------------------
(* Properties. *)

ValidName == validateNpmPackageName(packageName).validForNewPackages

HasLog(m) == \E i \in 1..Len(log) : log[i].msg = m

Visited(stage) == \E i \in 1..Len(stages) : stages[i] = stage

SuccessMessage == "Success! A new Diez (DS) has been created at"

SuggestBareMessage == "If you would like to generate an empty project, re-run with"

\* The order of the stages; the wait for the extractor is the second half of
\* the acquisition.
Rank(stage) ==
  CASE stage = "Validate"     -> 1
    [] stage = "ProbeManager" -> 2
    [] stage = "ValidateRoot" -> 3
    [] stage = "Acquire"      -> 4
    [] stage = "Extracting"   -> 5
    [] stage = "Substitute"   -> 6
    [] stage = "Install"      -> 7
    [] stage = "InitVCS"      -> 8
    [] stage = "Report"       -> 9
    [] stage = "Success"      -> 10
    [] stage = "Aborted"      -> 11
    [] stage = "Crashed"      -> 11

\* The errors of the validation stages (lines 51, 104, 109, 117).
ValidationErrors ==
  {"Unable to create project with name", "Found a non-directory",
   "A Node.js project already exists", "Unable to start an NPM process"}

\* C1: a run with a package name that validate-npm-package-name does not
\* accept for new packages never leaves the name validation except to abort
\* with the name error, and it creates no directory, writes nothing and makes
\* no external call (no probe, no root validation, no template, no install,
\* no git).
C1_InvalidNameCreatesNothing ==
  ~ValidName =>
    /\ pc \in {"Validate", "Aborted"}
    /\ (pc = "Aborted" => error = "Unable to create project with name")
    /\ fs = InitialFs(Root, rootKind)
    /\ writes = {}
    /\ calls = NoCalls
    /\ templateDest = <<>>

\* A name rejected for a warning alone has aborted, and the absent root is
\* still absent.
C1_Witness ==
  /\ pc = "Aborted"
  /\ NameErrors(packageName) = <<>>
  /\ NameWarnings(packageName) # <<>>
  /\ rootKind = "absent"
  /\ ~existsSync(fs, Root)

\* C2: with a valid name and a root that is a directory holding a
\* package.json, the run aborts in the root validation with the conflict
\* error, and the file system is as it was: no template is written, no
\* install and no git initialization is run, whatever bare and useYarn are.
C2_ExistingProjectUntouched ==
  (ValidName /\ rootKind = "project") =>
    /\ pc \in {"Validate", "ProbeManager", "ValidateRoot", "Aborted"}
    /\ (pc = "Aborted" => error = "A Node.js project already exists")
    /\ fs = InitialFs(Root, rootKind)
    /\ writes = {}
    /\ templateDest = <<>>
    /\ calls.download = 0
    /\ calls.templateOutput = 0
    /\ calls.install = 0
    /\ calls.gitInit = 0

C2_Witness ==
  /\ ValidName
  /\ rootKind = "project"
  /\ ~bare
  /\ ~useYarn
  /\ pc = "Aborted"
  /\ fs[Join(Root, "package.json")] = "old"

\* C3: every path the run creates or writes lies under the project root or
\* under the temporary directory, and the destination handed to
\* outputTemplatePackage is the project root.
C3_WritesOnlyUnderRootOrTemp ==
  /\ \A p \in writes : Under(p, Root) \/ Under(p, TempFileName)
  /\ templateDest \in {<<>>, Root}

\* C4: the root directory is created by the run only when the name validation
\* and the whole root validation have succeeded: the run is past them and has
\* not aborted with one of their errors.
C4_RootOnlyAfterFullValidation ==
  (Root \in writes) =>
    /\ Visited("Acquire")
    /\ ~(pc = "Aborted" /\ error \in ValidationErrors)

\* C5: after a failed install the run has not aborted: the warning naming the
\* probed package manager's install command is logged, git initialization is
\* attempted next, and the run ends reporting success with no error.
C5_InstallFailureIsNotFatal ==
  (results.install = "failed") =>
    /\ pc \in {"InitVCS", "Report", "Success"}
    /\ error = "none"
    /\ installCmd = (IF useYarn THEN "yarn" ELSE "npm")
    /\ \E i \in 1..Len(log) :
         /\ log[i].level = "warning"
         /\ log[i].msg = "You may need to run"
         /\ log[i].args = <<IF useYarn THEN "yarn" ELSE "npm", "install">>
    /\ (pc \in {"Report", "Success"} => calls.gitInit = 1)
    /\ (pc = "Success" => HasLog(SuccessMessage))

C5_Witness ==
  /\ results.install = "failed"
  /\ ~useYarn
  /\ ~bare
  /\ pc = "Success"

\* C6: in remote mode, when downloadStream gives no stream, the run has
\* aborted with the download error, the last thing logged is the suggestion
\* to re-run with --bare, and no template output, install, git
\* initialization or success report has happened.
C6_NoStreamAbortsWithSuggestion ==
  (results.download = "noStream") =>
    /\ ~bare
    /\ pc = "Aborted"
    /\ error = "Unable to download template project"
    /\ Len(log) > 0
    /\ log[Len(log)].msg = SuggestBareMessage
    /\ log[Len(log)].args = <<"--bare">>
    /\ calls.templateOutput = 0
    /\ calls.install = 0
    /\ calls.gitInit = 0
    /\ templateDest = <<>>
    /\ \A p \in DOMAIN fs : fs[p] # "template"
    /\ ~HasLog(SuccessMessage)

C6_Witness ==
  /\ results.download = "noStream"
  /\ pc = "Aborted"
  /\ Visited("Acquire")

\* C7 as stated: without yarn the run gets past the root validation only if
\* npm reports the project root as its working directory; otherwise it
\* aborts before any template is written and before the install; with yarn
\* the npm check is never made.
C7_PastRootValidationOnlyIfNpmTargetsRoot ==
  /\ (useYarn => calls.npmConfig = 0)
  /\ (~useYarn /\ Visited("Acquire")) =>
       (npmOutput.kind = "cwdLine" /\ npmOutput.cwd = Root)
  /\ (calls.npmConfig = 1 /\ ~(npmOutput.kind = "cwdLine" /\ npmOutput.cwd = Root)) =>
       (pc = "Aborted" /\ calls.templateOutput = 0 /\ calls.install = 0)

\* C7, amended: without yarn the run gets past the root validation only if
\* npm did not report a working directory other than the project root (it
\* also gets past when npm could not be spawned or its output has no cwd
\* line); when npm reports another directory the run aborts with an error
\* before any template is written and before the install; with yarn the npm
\* check is never made.
C7_PastRootValidationUnlessNpmElsewhere ==
  /\ (useYarn => (calls.npmConfig = 0 /\ npmOutput = NpmNotRun))
  /\ (~useYarn /\ Visited("Acquire")) =>
       /\ calls.npmConfig = 1
       /\ npmOutput.kind \in {"spawnFailed", "noCwdLine", "cwdLine"}
       /\ (npmOutput.kind = "cwdLine" => npmOutput.cwd = Root)
  /\ (npmOutput.kind = "cwdLine" /\ npmOutput.cwd # Root) =>
       /\ pc = "Aborted"
       /\ error = "Unable to start an NPM process"
       /\ calls.templateOutput = 0
       /\ calls.install = 0
       /\ templateDest = <<>>
       /\ \A p \in DOMAIN fs : fs[p] # "template"

C7_Witness ==
  /\ ~useYarn
  /\ npmOutput.kind = "cwdLine"
  /\ npmOutput.cwd # Root
  /\ pc = "Aborted"

\* C8: in remote mode, once the download has given a stream, the wait for
\* the extractor ends: the run goes on to the substitution or aborts with
\* the failure.
C8_ExtractionEventuallyFinishes ==
  (pc = "Extracting") ~> (pc \in {"Substitute", "Aborted"})

LogLengthBeforeReport ==
  (IF bare THEN 0 ELSE 1)
    + (IF results.install = "failed" THEN 2 ELSE 0)
    + (IF results.git = "ok" THEN 1 ELSE 0)

\* C10: a failed git initialization is not logged and the run still reports
\* success; the message "Initialized a Git repository" is in the log only
\* when the initialization succeeded; the git initialization is attempted
\* after a failed install as after a successful one.
C10_GitFailureIsSilent ==
  /\ (results.git = "failed") =>
       /\ pc \in {"Report", "Success"}
       /\ error = "none"
       /\ ~HasLog("Initialized a Git repository at")
       /\ (pc = "Success" => HasLog(SuccessMessage))
  /\ HasLog("Initialized a Git repository at") => results.git = "ok"
  /\ (pc = "Report") => Len(log) = LogLengthBeforeReport
  /\ (results.install # "notRun" /\ pc \in {"Report", "Success"}) =>
       (calls.gitInit = 1 /\ results.git # "notRun")

C10_Witness ==
  /\ results.git = "failed"
  /\ results.install = "failed"
  /\ pc = "Success"
  /\ HasLog(SuccessMessage)

====
